---- MODULE Spec2Model ----
(***************************************************************************)
(* imdedup: perceptual-hash image deduplication (src/src/main.rs).         *)
(*                                                                         *)
(* main() lists the regular files of a directory and hands every path to   *)
(* one rayon task.  A task decodes and hashes its file outside any lock,   *)
(* then takes the mutex around the BTreeMap of hashes, classifies the      *)
(* image against the map, bumps one of three counters, optionally deletes  *)
(* one file of a matched pair and inserts its own record.  The guard is    *)
(* dropped when the closure returns or unwinds.                            *)
(***************************************************************************)
EXTENDS Integers, Sequences, FiniteSets, TLC

\* ---------------------------------------------------------------- bounds
\* Largest number of regular files in the directory.
MaxFiles == 3

\* ------------------------------------------------------ program constants
\* Bytes of one hash: HasherConfig::new() hashes to 8x8 bits.
HashLen == 8
\* Largest bit distance that still counts as similar.
Threshold == 5

\* ------------------------------------------------------------ input sets
\* File sizes and creation times are only ever compared with each other.
Sizes == 1..2
Times == 1..2

\* A hash whose last two bytes are a, b and whose other bytes are zero.
HashOf(a, b) ==
    [i \in 1..HashLen |-> IF i = HashLen - 1 THEN a ELSE IF i = HashLen THEN b ELSE 0]

\* Three hashes in ascending byte order: the first two are 5 bits apart, the
\* last two 1 bit apart, the first and the last 6 bits apart.
HashSeq == << HashOf(0, 0), HashOf(0, 31), HashOf(1, 31) >>
Hashes == {HashSeq[i] : i \in 1..Len(HashSeq)}

\* What lies behind a path: an image (decodable, with the hash its pixels give)
\* or some other regular file.
NotAnImage == [decodable |-> FALSE, hash |-> << >>, size |-> 1, created |-> 1]
ImageFiles == [decodable : {TRUE}, hash : Hashes, size : Sizes, created : Times]
FileKinds == ImageFiles \cup {NotAnImage}

\* Option<T> as a set with at most one element.
None == {}
Some(x) == {x}
Unwrap(o) == CHOOSE x \in o : TRUE

VARIABLES
    run,                    \* which invocation of the program this is
    args_delete,            \* args.delete
    file_paths,             \* the paths main() collected
    images,                 \* path -> what the file is (never written by the program)
    exists,                 \* paths that are on disk now
    hashes,                 \* the BTreeMap: hash -> StoredImage
    lock,                   \* holder of the mutex, as an Option
    pc,                     \* position of each task
    hash,                   \* locals of each task ...
    dup_of,
    sim_to,
    previous_stored_image,
    file_size,
    created_at,
    should_insert,
    dup_count,
    sim_count,
    uniq_count,
    processed_count,
    panicked                \* some task has panicked

locals == << hash, dup_of, sim_to, previous_stored_image, file_size, created_at, should_insert >>
counters == << dup_count, sim_count, uniq_count, processed_count >>
inputs == << run, args_delete, file_paths, images >>
vars == << inputs, exists, hashes, lock, pc, locals, counters, panicked >>

\* ------------------------------------------------------------- bit tricks
RECURSIVE BitXor(_, _)
\* a ^ b on u8
BitXor(a, b) ==
    IF a = 0 /\ b = 0 THEN 0
    ELSE (((a % 2) + (b % 2)) % 2) + (2 * BitXor(a \div 2, b \div 2))

RECURSIVE count_ones(_)
count_ones(x) == IF x = 0 THEN 0 ELSE (x % 2) + count_ones(x \div 2)

Min(a, b) == IF a <= b THEN a ELSE b

RECURSIVE DiffFrom(_, _, _)
DiffFrom(a, b, i) ==
    IF i > Min(Len(a), Len(b)) THEN 0
    ELSE count_ones(BitXor(a[i], b[i])) + DiffFrom(a, b, i + 1)

\* The inner loop: zip stops at the shorter of the two hashes.
diff_bits(a, b) == DiffFrom(a, b, 1)

\* ------------------------------------------------------------- the store
RECURSIVE LexLessFrom(_, _, _)
LexLessFrom(a, b, i) ==
    IF i > Len(a) THEN i <= Len(b)
    ELSE IF i > Len(b) THEN FALSE
    ELSE IF a[i] # b[i] THEN a[i] < b[i]
    ELSE LexLessFrom(a, b, i + 1)

\* Ord for Vec<u8>: the order of the BTreeMap's keys.
LexLess(a, b) == LexLessFrom(a, b, 1)

RECURSIVE SortedKeys(_)
\* hashes.iter(): the keys in ascending order.
SortedKeys(keys) ==
    IF keys = {} THEN << >>
    ELSE LET first == CHOOSE k \in keys : \A o \in keys \ {k} : LexLess(k, o)
         IN  << first >> \o SortedKeys(keys \ {first})

\* The two metadata fields filled in crosswise.
StoredImage_FieldsCrossed(path, size, created) ==
    [path |-> path, file_size |-> created, created_at |-> size]

\* The record filled in with the path of the next directory entry.
StoredImage_NextPath(path, size, created) ==
    [path |-> IF path + 1 \in file_paths THEN path + 1 ELSE path,
     file_size |-> size, created_at |-> created]

\* StoredImage { path, file_size, created_at }
StoredImage(path, size, created) ==
    [path |-> path, file_size |-> size, created_at |-> created]

\* hashes.get(&hash)
Get(store, h) == IF h \in DOMAIN store THEN Some(store[h]) ELSE None

\* hashes.insert(hash, StoredImage { .. }): a new key, or a new value for an old key.
Insert(store, h, rec) ==
    [k \in DOMAIN store \cup {h} |-> IF k = h THEN rec ELSE store[k]]

\* ------------------------------------------------------- classification
\* if diff_bits <= 5
WithinThreshold(d) == d <= Threshold

RECURSIVE Scan_NoBreak(_, _, _)
\* Scan without its break: the last entry within the threshold wins.
Scan_NoBreak(keys, store, h) ==
    IF keys = << >> THEN None
    ELSE LET later == Scan_NoBreak(Tail(keys), store, h)
         IN  IF later # None THEN later
             ELSE IF diff_bits(h, Head(keys)) <= Threshold THEN Some(store[Head(keys)])
             ELSE None

RECURSIVE Scan(_, _, _)
\* for (other_hash, other_path) in hashes.iter() { .. break }
Scan(keys, store, h) ==
    IF keys = << >> THEN None
    ELSE IF WithinThreshold(diff_bits(h, Head(keys))) THEN Some(store[Head(keys)])
    ELSE Scan(Tail(keys), store, h)

SimTo(store, h) == Scan(SortedKeys(DOMAIN store), store, h)

\* The record the display block keeps: the exact match first, else the similar one.
PreviousStoredImage(d, s) == IF d # None THEN d ELSE s

\* The counters tested in the wrong order: the scan finds an entry for every
\* exact match too, so an exact match is counted as similar.
CountedAs_SimFirst(d, s) == IF s # None THEN "sim" ELSE IF d # None THEN "dup" ELSE "uniq"

\* Which counter the task bumps.
CountedAs(d, s) == IF d # None THEN "dup" ELSE IF s # None THEN "sim" ELSE "uniq"

\* ------------------------------------------------------------ resolution
\* Resolution that forgets to look at the flag.
DeleteApplies_Always(delete, prev) == prev # None

\* if args.delete { if let Some(previous_stored_image) = .. }
DeleteApplies(delete, prev) == delete /\ prev # None

\* The Less arm naming the stored file.
path_to_delete_LessSwapped(path_string, size, created, prev) ==
    IF size = prev.file_size
    THEN IF created > prev.created_at THEN prev.path ELSE path_string
    ELSE prev.path

\* The Greater arm naming the candidate.
path_to_delete_GreaterSwapped(path_string, size, created, prev) ==
    IF size = prev.file_size
    THEN IF created > prev.created_at THEN prev.path ELSE path_string
    ELSE path_string

\* match file_size.cmp(&previous_stored_image.file_size) { .. }
path_to_delete(path_string, size, created, prev) ==
    IF size = prev.file_size
    THEN IF created > prev.created_at THEN prev.path ELSE path_string
    ELSE IF size > prev.file_size THEN prev.path
    ELSE path_string

\* A lock that never blocks.
LockAvailable_Unguarded == TRUE

\* let mut hashes = hashes.lock(): blocks until nobody holds the mutex.
LockAvailable == lock = None

\* A guard that is never dropped (leaked, or kept by a thread that is gone).
Dropped_Leaked(guard) == guard

\* The MutexGuard goes out of scope, at the end of the closure or while it
\* unwinds: the mutex is free again.
Dropped(guard) == None

\* ------------------------------------------------------------------ init
HashIndex(h) == CHOOSE i \in 1..Len(HashSeq) : HashSeq[i] = h

\* Paths carry no meaning of their own and the tasks run in any order, so the
\* directory is listed with its files in a fixed order of their attributes.
Rank(img) ==
    IF ~img.decodable THEN 0
    ELSE 1 + (((HashIndex(img.hash) - 1) * Cardinality(Sizes)) + (img.size - 1)) * Cardinality(Times)
           + (img.created - 1)

Listed(imgs) == \A p, q \in DOMAIN imgs : p <= q => Rank(imgs[p]) <= Rank(imgs[q])

Init ==
    /\ run = 1
    /\ args_delete \in BOOLEAN
    /\ \E n \in 0..MaxFiles : file_paths = 1..n
    /\ images \in [file_paths -> FileKinds]
    /\ Listed(images)
    /\ exists = file_paths
    /\ hashes = << >>
    /\ lock = None
    /\ pc = [p \in file_paths |-> "open"]
    /\ hash = [p \in file_paths |-> << >>]
    /\ dup_of = [p \in file_paths |-> None]
    /\ sim_to = [p \in file_paths |-> None]
    /\ previous_stored_image = [p \in file_paths |-> None]
    /\ file_size = [p \in file_paths |-> 0]
    /\ created_at = [p \in file_paths |-> 0]
    /\ should_insert = [p \in file_paths |-> TRUE]
    /\ dup_count = 0
    /\ sim_count = 0
    /\ uniq_count = 0
    /\ processed_count = 0
    /\ panicked = FALSE

\* --------------------------------------------------------------- actions
\* image::open(&path), hasher.hash_image(&image): outside the lock.  A file that
\* does not decode ends the task.
Open(p) ==
    /\ pc[p] = "open"
    /\ IF p \in exists /\ images[p].decodable
       THEN /\ hash' = [hash EXCEPT ![p] = images[p].hash]
            /\ pc' = [pc EXCEPT ![p] = "lock"]
       ELSE /\ pc' = [pc EXCEPT ![p] = "skipped"]
            /\ UNCHANGED hash
    /\ UNCHANGED << inputs, exists, hashes, lock, dup_of, sim_to, previous_stored_image,
                    file_size, created_at, should_insert, counters, panicked >>

\* hashes.lock()
Lock(p) ==
    /\ pc[p] = "lock"
    /\ LockAvailable
    /\ lock' = Some(p)
    /\ pc' = [pc EXCEPT ![p] = "classify"]
    /\ UNCHANGED << inputs, exists, hashes, locals, counters, panicked >>

\* Exact lookup, similarity scan, progress line and counters.
Classify(p) ==
    /\ pc[p] = "classify"
    /\ LET d == Get(hashes, hash[p])
           s == SimTo(hashes, hash[p])
           c == CountedAs(d, s)
       IN  /\ dup_of' = [dup_of EXCEPT ![p] = d]
           /\ sim_to' = [sim_to EXCEPT ![p] = s]
           /\ previous_stored_image' =
                 [previous_stored_image EXCEPT ![p] = PreviousStoredImage(d, s)]
           /\ processed_count' = processed_count + 1
           /\ dup_count' = IF c = "dup" THEN dup_count + 1 ELSE dup_count
           /\ sim_count' = IF c = "sim" THEN sim_count + 1 ELSE sim_count
           /\ uniq_count' = IF c = "uniq" THEN uniq_count + 1 ELSE uniq_count
    /\ pc' = [pc EXCEPT ![p] = "resolve"]
    /\ UNCHANGED << inputs, exists, hashes, lock, hash, file_size, created_at,
                    should_insert, panicked >>

\* The error of the failed call dropped instead of unwrapped: the task goes on.
Unwind_Swallowed(p) ==
    /\ pc' = [pc EXCEPT ![p] = "insert"]
    /\ UNCHANGED << lock, panicked >>

\* A failed unwrap(): the task unwinds, its guard is dropped, the panic is
\* carried to main.  Tasks that are still running may go on until then.
Unwind(p) ==
    /\ pc' = [pc EXCEPT ![p] = "panicked"]
    /\ lock' = Dropped(lock)
    /\ panicked' = TRUE

\* fs::metadata(&path), the choice of the file to delete, fs::remove_file.
Resolve(p) ==
    /\ pc[p] = "resolve"
    /\ IF p \notin exists
       THEN /\ Unwind(p)
            /\ UNCHANGED << exists, file_size, created_at, should_insert >>
       ELSE /\ file_size' = [file_size EXCEPT ![p] = images[p].size]
            /\ created_at' = [created_at EXCEPT ![p] = images[p].created]
            /\ IF DeleteApplies(args_delete, previous_stored_image[p])
               THEN LET gone == path_to_delete(p, images[p].size, images[p].created,
                                               Unwrap(previous_stored_image[p]))
                    IN  /\ should_insert' = [should_insert EXCEPT ![p] = (gone # p)]
                        /\ IF gone \in exists
                           THEN /\ exists' = exists \ {gone}
                                /\ pc' = [pc EXCEPT ![p] = "insert"]
                                /\ UNCHANGED << lock, panicked >>
                           ELSE /\ Unwind(p)
                                /\ UNCHANGED exists
               ELSE /\ should_insert' = [should_insert EXCEPT ![p] = TRUE]
                    /\ pc' = [pc EXCEPT ![p] = "insert"]
                    /\ UNCHANGED << exists, lock, panicked >>
    /\ UNCHANGED << inputs, hashes, hash, dup_of, sim_to, previous_stored_image, counters >>

\* if should_insert { hashes.insert(..) }, then the closure returns: its borrows
\* of the map end and the guard is dropped.
Store(p) ==
    /\ pc[p] = "insert"
    /\ hashes' = IF should_insert[p]
                 THEN Insert(hashes, hash[p], StoredImage(p, file_size[p], created_at[p]))
                 ELSE hashes
    /\ dup_of' = [dup_of EXCEPT ![p] = None]
    /\ sim_to' = [sim_to EXCEPT ![p] = None]
    /\ previous_stored_image' = [previous_stored_image EXCEPT ![p] = None]
    /\ lock' = Dropped(lock)
    /\ pc' = [pc EXCEPT ![p] = "done"]
    /\ UNCHANGED << inputs, exists, hash, file_size, created_at, should_insert,
                    counters, panicked >>

Next ==
    \/ \E p \in file_paths : Open(p)
    \/ \E p \in file_paths : Lock(p)
    \/ \E p \in file_paths : Classify(p)
    \/ \E p \in file_paths : Resolve(p)
    \/ \E p \in file_paths : Store(p)

Spec == Init /\ [][Next]_vars

\* rayon runs every task it was handed and the mutex is granted to a waiting
\* thread once it is free: some enabled step is always taken in the end.
FairSpec == Spec /\ WF_vars(Next)

\* --------------------------------------------------- the reference scenario
\* A directory of three images: paths 1 and 2 have the same hash and 1000 and
\* 2000 bytes, path 3 has a hash 3 bits away and 500 bytes; --delete is given.
InitScenario ==
    /\ run = 1
    /\ args_delete = TRUE
    /\ file_paths = 1..3
    /\ \E t \in [1..3 -> Times] :
          images = [p \in 1..3 |->
                      [decodable |-> TRUE,
                       hash |-> IF p = 3 THEN HashOf(0, 7) ELSE HashOf(0, 0),
                       size |-> IF p = 1 THEN 1000 ELSE IF p = 2 THEN 2000 ELSE 500,
                       created |-> t[p]]]
    /\ exists = file_paths
    /\ hashes = << >>
    /\ lock = None
    /\ pc = [p \in file_paths |-> "open"]
    /\ hash = [p \in file_paths |-> << >>]
    /\ dup_of = [p \in file_paths |-> None]
    /\ sim_to = [p \in file_paths |-> None]
    /\ previous_stored_image = [p \in file_paths |-> None]
    /\ file_size = [p \in file_paths |-> 0]
    /\ created_at = [p \in file_paths |-> 0]
    /\ should_insert = [p \in file_paths |-> TRUE]
    /\ dup_count = 0
    /\ sim_count = 0
    /\ uniq_count = 0
    /\ processed_count = 0
    /\ panicked = FALSE

SpecScenario == InitScenario /\ [][Next]_vars

\* ------------------------------------------------ hashes of any length
\* The comparison loop takes any two byte vectors.  Here the two images of a
\* directory hash to vectors of one or two bytes, each byte 0 or 255.
AnyLengthHashes ==
    [1..1 -> {0, 255}] \cup [1..2 -> {0, 255}]

InitCompare ==
    /\ run = 1
    /\ args_delete \in BOOLEAN
    /\ file_paths = 1..2
    /\ images \in [file_paths ->
                     [decodable : {TRUE}, hash : AnyLengthHashes, size : Sizes, created : {1}]]
    /\ exists = file_paths
    /\ hashes = << >>
    /\ lock = None
    /\ pc = [p \in file_paths |-> "open"]
    /\ hash = [p \in file_paths |-> << >>]
    /\ dup_of = [p \in file_paths |-> None]
    /\ sim_to = [p \in file_paths |-> None]
    /\ previous_stored_image = [p \in file_paths |-> None]
    /\ file_size = [p \in file_paths |-> 0]
    /\ created_at = [p \in file_paths |-> 0]
    /\ should_insert = [p \in file_paths |-> TRUE]
    /\ dup_count = 0
    /\ sim_count = 0
    /\ uniq_count = 0
    /\ processed_count = 0
    /\ panicked = FALSE

SpecCompare == InitCompare /\ [][Next]_vars

\* ------------------------------------------------------------ a second run
\* The program is started again with the same arguments once a run has
\* returned from main: the directory is listed anew, so only the files still
\* on disk are handed out, and the store and the counters start empty.
Rerun ==
    /\ run = 1
    /\ \A p \in file_paths : pc[p] \in {"done", "skipped"}
    /\ run' = 2
    /\ file_paths' = exists
    /\ images' = [p \in exists |-> images[p]]
    /\ hashes' = << >>
    /\ lock' = None
    /\ pc' = [p \in exists |-> "open"]
    /\ hash' = [p \in exists |-> << >>]
    /\ dup_of' = [p \in exists |-> None]
    /\ sim_to' = [p \in exists |-> None]
    /\ previous_stored_image' = [p \in exists |-> None]
    /\ file_size' = [p \in exists |-> 0]
    /\ created_at' = [p \in exists |-> 0]
    /\ should_insert' = [p \in exists |-> TRUE]
    /\ dup_count' = 0
    /\ sim_count' = 0
    /\ uniq_count' = 0
    /\ processed_count' = 0
    /\ UNCHANGED << args_delete, exists, panicked >>

NextTwice ==
    \/ Next
    \/ Rerun

\* The runs started with --delete.
InitDelete == Init /\ args_delete

SpecTwice == InitDelete /\ [][NextTwice]_vars

\* ================================================================ claims
InCriticalSection(p) == pc[p] \in {"classify", "resolve", "insert"}

\* C1: at most one task at a time is between the start of its classification
\* and the end of its store update, and that task holds the store lock from
\* before its first read of the store until after its insert.
C1_MutualExclusion ==
    /\ \A p, q \in file_paths : InCriticalSection(p) /\ InCriticalSection(q) => p = q
    /\ \A p \in file_paths : InCriticalSection(p) <=> lock = Some(p)

\* A task is about to insert while another, already hashed, waits for the lock.
C1_Witness ==
    \E p, q \in file_paths : p # q /\ pc[p] = "insert" /\ pc[q] = "lock"

\* The reference matcher, stated without the code's loops.
RefBit(x, j) == (x \div (2 ^ j)) % 2
RefDistance(a, b) ==
    Cardinality({ij \in (1..HashLen) \X (0..7) :
                    RefBit(a[ij[1]], ij[2]) # RefBit(b[ij[1]], ij[2])})
RefBefore(a, b) ==
    \E i \in 1..HashLen : a[i] < b[i] /\ \A j \in 1..(i - 1) : a[j] = b[j]
RefClassify(store, h) ==
    IF h \in DOMAIN store THEN << "Duplicate", {store[h]} >>
    ELSE LET near == {k \in DOMAIN store : RefDistance(h, k) <= 5}
         IN  IF near = {} THEN << "Unique", {} >>
             ELSE << "Similar",
                     {store[CHOOSE k \in near : \A o \in near \ {k} : RefBefore(k, o)]} >>

\* What the task made of its image, read off its locals.
Classification(p) ==
    IF dup_of[p] # None THEN "Duplicate" ELSE IF sim_to[p] # None THEN "Similar" ELSE "Unique"
Classified(p) == pc[p] \in {"resolve", "insert"}

\* C2: a task's classification and matched record are those of the reference
\* matcher on the store as it is: Duplicate with the record under the hash,
\* else Similar with the first record in ascending hash order within 5 bits,
\* else Unique with no record.
C2_ClassifyMatchesReference ==
    \A p \in file_paths :
        Classified(p) =>
            << Classification(p), previous_stored_image[p] >> = RefClassify(hashes, hash[p])

\* A Similar result whose record is not the closest one in the store.
C2_Witness ==
    \E p \in file_paths :
        /\ pc[p] = "resolve"
        /\ Classification(p) = "Similar"
        /\ \E k, m \in DOMAIN hashes :
              /\ previous_stored_image[p] = {hashes[m]}
              /\ RefDistance(hash[p], k) < RefDistance(hash[p], m)

\* ---------------------------------------------------------- resolution
Matched(p) == previous_stored_image[p] # None
Match(p) == Unwrap(previous_stored_image[p])
Records(store) == {store[k] : k \in DOMAIN store}
Completed == \A p \in file_paths : pc[p] \in {"done", "skipped"}

\* C3: with delete on, a matched candidate strictly larger than its match ends
\* its step with the match's file deleted, its own file kept, its own record in
\* the store and the match's record gone from the store.
C3_LargerReplacesMatched ==
    [][\A p \in file_paths :
          ( /\ args_delete
            /\ pc[p] = "insert" /\ pc'[p] = "done"
            /\ Matched(p)
            /\ file_size[p] > Match(p).file_size )
          => /\ Match(p).path \notin exists'
             /\ p \in exists'
             /\ [path |-> p, file_size |-> file_size[p], created_at |-> created_at[p]]
                    \in Records(hashes')
             /\ Match(p) \notin Records(hashes')]_vars

SmallerMatch(p) ==
    /\ args_delete
    /\ pc[p] \in {"resolve", "insert"}
    /\ Matched(p)
    /\ images[p].size < Match(p).file_size

\* C4: with delete on, while a matched candidate strictly smaller than its
\* match is being resolved and finished, the store never changes, the only
\* file that leaves the disk is the candidate's own (at its resolve step), and
\* the match's file is not the one deleted.
C4_SmallerCandidateDiscarded ==
    [][\A p \in file_paths :
          SmallerMatch(p) =>
             /\ hashes' = hashes
             /\ (pc[p] = "resolve" /\ pc'[p] # "resolve") =>
                    /\ pc'[p] = "insert"
                    /\ p \in exists
                    /\ Match(p).path # p
                    /\ exists' = exists \ {p}
             /\ (pc[p] = "insert" /\ pc'[p] # "insert") =>
                    /\ pc'[p] = "done"
                    /\ exists' = exists
             /\ pc'[p] = pc[p] => exists' = exists]_vars

\* A smaller candidate has just been deleted and its match is still on disk.
C4_Witness ==
    \E p \in file_paths :
        /\ SmallerMatch(p)
        /\ pc[p] = "insert"
        /\ p \notin exists
        /\ Match(p).path \in exists
        /\ ~should_insert[p]

\* C5: with delete on, when a matched candidate and its match have the same
\* size and different creation times, the resolve step deletes the newer of
\* the two files and leaves the older one on disk.
C5_TieKeepsOlder ==
    [][\A p \in file_paths :
          ( /\ args_delete
            /\ pc[p] = "resolve" /\ pc'[p] = "insert"
            /\ Matched(p)
            /\ images[p].size = Match(p).file_size
            /\ images[p].created # Match(p).created_at )
          => LET candidate_newer == images[p].created > Match(p).created_at
                 newer == IF candidate_newer THEN p ELSE Match(p).path
                 older == IF candidate_newer THEN Match(p).path ELSE p
             IN  newer \notin exists' /\ older \in exists']_vars

\* C6: with delete off, a candidate classified Duplicate or Similar leaves the
\* store as it was.
C6_NoDeleteStoresOnlyUnique ==
    [][\A p \in file_paths :
          (~args_delete /\ pc[p] = "insert" /\ pc'[p] = "done" /\ Matched(p))
          => hashes' = hashes]_vars

\* C7: with delete off, every file the run started with is on disk in every
\* state of the run.
C7_NoDeleteKeepsFiles == ~args_delete => exists = file_paths

\* A run without delete that has finished and has met a duplicate and a
\* similar image.
C7_Witness ==
    /\ ~args_delete
    /\ file_paths # {}
    /\ Completed
    /\ dup_count >= 1
    /\ sim_count >= 1

\* ------------------------------------------------------------- counters
Counted == {p \in file_paths : pc[p] \in {"resolve", "insert", "done", "panicked"}}
Decodable == {p \in file_paths : images[p].decodable}

C8_Totals ==
    /\ dup_count + sim_count + uniq_count = Cardinality(Counted)
    /\ Completed => dup_count + sim_count + uniq_count = Cardinality(Decodable)
    /\ file_paths = {} => dup_count = 0 /\ sim_count = 0 /\ uniq_count = 0

C8_Step ==
    /\ dup_count' >= dup_count /\ sim_count' >= sim_count /\ uniq_count' >= uniq_count
    /\ \A p \in file_paths :
          (pc[p] = "classify" /\ pc'[p] # "classify") =>
             LET c == RefClassify(hashes, hash[p])[1]
             IN  /\ pc'[p] = "resolve"
                 /\ exists' = exists /\ hashes' = hashes
                 /\ dup_count' = dup_count + (IF c = "Duplicate" THEN 1 ELSE 0)
                 /\ sim_count' = sim_count + (IF c = "Similar" THEN 1 ELSE 0)
                 /\ uniq_count' = uniq_count + (IF c = "Unique" THEN 1 ELSE 0)
    /\ (\A p \in file_paths : pc[p] = "classify" => pc'[p] = "classify")
          => UNCHANGED << dup_count, sim_count, uniq_count >>

\* C8: each hashed image bumps exactly one counter, the one of its
\* classification, when it is classified and before anything is resolved; a
\* file that does not decode bumps none; no counter ever decreases; when the
\* run completes the three counters add up to the number of hashed images,
\* and they are all zero for an empty directory.
C8_CountingRule == []C8_Totals /\ [][C8_Step]_vars

\* A completed run that counted one image of each kind.
C8_Witness ==
    /\ Completed
    /\ dup_count = 1 /\ sim_count = 1 /\ uniq_count = 1

\* --------------------------------------------------------- equal hashes
OnlyPair(p, q) ==
    \A r \in file_paths \ {p, q} : ~images[r].decodable \/ images[r].hash # images[p].hash
RecordOf(q) == [path |-> q, file_size |-> images[q].size, created_at |-> images[q].created]

\* C9 as stated: of two images with the same hash (no third image has it) the
\* one classified after the other was processed is a Duplicate of the other's
\* record.
C9_SecondIsDuplicateOfFirst ==
    [][\A p, q \in file_paths :
          ( /\ p # q
            /\ pc[q] = "done"
            /\ hash[q] = hash[p]
            /\ OnlyPair(p, q)
            /\ pc[p] = "classify" /\ pc'[p] = "resolve" )
          => dup_of'[p] = {RecordOf(q)}]_vars

\* C9 as amended: the second is a Duplicate of the first's record exactly when
\* the first was inserted into the store; a first that resolution discarded is
\* not in the store and the second is then no Duplicate.
C9_SecondIsDuplicateOfStoredFirst ==
    [][\A p, q \in file_paths :
          ( /\ p # q
            /\ pc[q] = "done"
            /\ hash[q] = hash[p]
            /\ OnlyPair(p, q)
            /\ pc[p] = "classify" /\ pc'[p] = "resolve" )
          => /\ should_insert[q] => dup_of'[p] = {RecordOf(q)}
             /\ ~should_insert[q] => dup_of'[p] = None]_vars

\* The second of a pair has been classified Duplicate of the first, which was
\* itself stored as the larger of a similar pair.
C9_Witness ==
    \E p, q \in file_paths :
        /\ p # q
        /\ args_delete
        /\ pc[q] = "done" /\ should_insert[q]
        /\ OnlyPair(p, q)
        /\ pc[p] = "resolve"
        /\ dup_of[p] = {RecordOf(q)}
        /\ Cardinality(DOMAIN hashes) = 2

\* C10: with delete on and exactly two images in the directory, of equal hash
\* and unequal size, a completed run leaves the larger on disk and not the
\* smaller, and touches no other file.
C10_PairKeepsLarger ==
    \A a, b \in file_paths :
        ( /\ args_delete
          /\ Completed
          /\ Decodable = {a, b}
          /\ images[a].hash = images[b].hash
          /\ images[a].size > images[b].size )
        => exists = file_paths \ {b}

\* Such a run has completed.
C10_Witness ==
    \E a, b \in file_paths :
        /\ args_delete
        /\ Completed
        /\ Decodable = {a, b}
        /\ images[a].hash = images[b].hash
        /\ images[a].size > images[b].size
        /\ dup_count = 1 /\ uniq_count = 1
        /\ exists = file_paths \ {b}

\* ------------------------------------------------------------ idempotence
\* C11 as stated: a second run with delete on, over the files a first run with
\* delete on has left, counts no duplicate and no similar image and deletes
\* no file.
C11_SecondRunFindsNothing ==
    (run = 2 /\ args_delete) =>
        /\ dup_count = 0
        /\ sim_count = 0
        /\ exists = file_paths

\* C11 as amended: the images a completed run with delete on has left have
\* pairwise different hashes, and a second run over them counts no duplicate.
C11_SecondRunFindsNoDuplicate ==
    /\ (run = 1 /\ args_delete /\ Completed) =>
          \A a, b \in exists \cap Decodable : images[a].hash = images[b].hash => a = b
    /\ (run = 2 /\ args_delete) => dup_count = 0

\* A second run has completed over two survivors of a first run that deleted
\* a file.
C11_Witness ==
    /\ run = 2
    /\ args_delete
    /\ Completed
    /\ Cardinality(file_paths \cap Decodable) = 2
    /\ dup_count = 0

\* ------------------------------------------------------- failed deletes
\* C12: in a task's processing the file is deleted before the store changes:
\* the resolve step of a matched candidate with delete on either removes one
\* file and leaves the store alone, or removes none, and then the task panics,
\* the run is marked as aborting and the task never inserts; the store stays
\* as the task found it until then, and the step that changes the store
\* deletes nothing.
C12_DeleteBeforeStore ==
    [][\A p \in file_paths :
          /\ (pc[p] = "resolve" /\ pc'[p] # "resolve" /\ args_delete /\ Matched(p)) =>
                /\ hashes' = hashes
                /\ \/ /\ exists' \subseteq exists
                      /\ Cardinality(exists \ exists') = 1
                      /\ pc'[p] = "insert"
                   \/ /\ exists' = exists
                      /\ pc'[p] = "panicked"
                      /\ panicked'
          /\ pc[p] = "panicked" => pc'[p] = "panicked"
          /\ pc[p] \in {"classify", "resolve"} => hashes' = hashes
          /\ hashes' # hashes => exists' = exists]_vars

\* A task that was to replace its match has panicked on the delete and has no
\* record in the store.
C12_Witness ==
    \E p \in file_paths :
        /\ pc[p] = "panicked"
        /\ should_insert[p]
        /\ \A k \in DOMAIN hashes : hashes[k].path # p

\* ----------------------------------------------------------- completion
Ended == \A p \in file_paths : pc[p] \in {"done", "skipped", "panicked"}

\* C14: under fair scheduling every run ends: every task returns or panics,
\* so none is left waiting for the lock; a task that has ended stays ended;
\* and a run that ends without a panic has skipped or classified every file,
\* each once.
C14_RunCompletes ==
    /\ <>Ended
    /\ [][\A p \in file_paths :
             pc[p] \in {"done", "skipped", "panicked"} => pc'[p] = pc[p]]_vars
    /\ []((Ended /\ ~panicked) =>
             /\ Completed
             /\ \A p \in file_paths : pc[p] = "skipped" <=> ~images[p].decodable
             /\ processed_count = Cardinality(Decodable))

\* A run has ended normally after a task had to wait for the lock: all three
\* files were classified and none was skipped.
C14_Witness ==
    /\ Cardinality(file_paths) = MaxFiles
    /\ Completed
    /\ ~panicked
    /\ processed_count = MaxFiles

\* ------------------------------------------------------------- scenario
Waiting(p) == pc[p] \in {"open", "lock"}
Classifies(p) == pc[p] = "classify" /\ pc'[p] = "resolve"
Resolves(p) == pc[p] = "resolve" /\ pc'[p] # "resolve"
Stores(p) == pc[p] = "insert" /\ pc'[p] = "done"

C15_Final ==
    Completed => exists = {2} /\ dup_count = 1 /\ sim_count = 1 /\ uniq_count = 1

C15_Step ==
    LET h == HashOf(0, 0)
        recX == [path |-> 1, file_size |-> 1000, created_at |-> images[1].created]
        recY == [path |-> 2, file_size |-> 2000, created_at |-> images[2].created]
        XFirst == Waiting(2) /\ Waiting(3)
        YSecond == pc[1] = "done" /\ Waiting(3) /\ hashes = (h :> recX)
        ZThird == pc[1] = "done" /\ pc[2] = "done" /\ hashes = (h :> recY)
    IN  /\ (XFirst /\ Classifies(1)) =>
               dup_of'[1] = None /\ sim_to'[1] = None /\ uniq_count' = 1
        /\ (XFirst /\ Stores(1)) =>
               hashes' = (h :> recX) /\ exists' = {1, 2, 3}
        /\ (YSecond /\ Classifies(2)) =>
               dup_of'[2] = {recX} /\ dup_count' = 1
        /\ (YSecond /\ Resolves(2)) =>
               pc'[2] = "insert" /\ should_insert'[2] /\ exists' = {2, 3}
        /\ (YSecond /\ Stores(2)) =>
               hashes' = (h :> recY)
        /\ (ZThird /\ Classifies(3)) =>
               dup_of'[3] = None /\ sim_to'[3] = {recY} /\ sim_count' = 1
        /\ (ZThird /\ Resolves(3)) =>
               pc'[3] = "insert" /\ ~should_insert'[3] /\ exists' = {2}
        /\ (ZThird /\ Stores(3)) =>
               hashes' = hashes

\* C15: in the scenario, processed in the order 1, 2, 3: image 1 is Unique and
\* stored; image 2 is a Duplicate of 1 and larger, so file 1 is deleted and 2
\* becomes the record under the hash; image 3 is Similar to that record and
\* smaller, so file 3 is deleted and the store is left alone; the run ends with
\* file 2 alone on disk and with one duplicate, one similar, one unique.
C15_ReferenceScenario == []C15_Final /\ [][C15_Step]_vars

\* Image 3 has just been deleted as similar to image 2, after 1 was stored as
\* unique and 2 replaced it.
C15_Witness ==
    /\ file_paths = 1..3
    /\ images[3].size = 500
    /\ pc[1] = "done" /\ should_insert[1]
    /\ pc[2] = "done" /\ should_insert[2]
    /\ pc[3] = "insert" /\ ~should_insert[3]
    /\ exists = {2}
    /\ dup_count = 1 /\ sim_count = 1 /\ uniq_count = 1

\* ------------------------------------------------------- stale records
\* C16: with delete on, whenever nobody is inside the critical section every
\* record of the store names a file that is on disk.
C16_StoreNamesExistingFiles ==
    (args_delete /\ lock = None) =>
        \A k \in DOMAIN hashes : hashes[k].path \in exists

\* C17: with delete on, a resolve step that deletes one file of a match leaves
\* the other file of the match on disk.
C17_OneOfTheMatchSurvives ==
    [][\A p \in file_paths :
          (args_delete /\ Resolves(p) /\ Matched(p) /\ exists' # exists) =>
             \/ p \notin exists' /\ Match(p).path \in exists'
             \/ Match(p).path \notin exists' /\ p \in exists']_vars

\* C18: no task ever fails on a delete: no run with delete on panics.
C18_NoFailedDelete == args_delete => ~panicked

\* ------------------------------------------------------ unprocessed files
C19_StillThere ==
    \A p \in file_paths : pc[p] \in {"open", "lock", "classify", "resolve"} => p \in exists

C19_Step ==
    \A g \in exists \ exists' :
        \E p \in file_paths :
            /\ Resolves(p)
            /\ lock = Some(p)
            /\ \/ g = p
               \/ /\ pc[g] = "done"
                  /\ should_insert[g]
                  /\ \E k \in DOMAIN hashes : hashes[k].path = g

\* C19: a step deletes only the file of the task that takes it, or the file
\* of a record that a task which has finished inserted; so the file of a task
\* that is still decoding, waiting for the lock or classifying is on disk, and
\* is there when the task reads its metadata.
C19_UnprocessedFilesKept == []C19_StillThere /\ [][C19_Step]_vars

\* A stored file has been deleted while another task has not taken the lock
\* yet.
C19_Witness ==
    \E g, q \in file_paths :
        /\ pc[g] = "done" /\ should_insert[g] /\ g \notin exists
        /\ pc[q] \in {"open", "lock"} /\ q \in exists

====
